---- MODULE Spec2Model ----
(***************************************************************************)
(* ULoadingScreenSubsystem (Private/LoadingScreenSubsystem.cpp) as a state *)
(* machine: the subsystem's fields, the settings object and host queries   *)
(* it reads on every evaluation, and one action per handler.               *)
(*                                                                         *)
(* Time is counted in tenths of a second: a clock reading or a hold of n   *)
(* stands for n/10 s.  FPlatformTime::Seconds() is a monotonic,            *)
(* non-negative reading.  A UObject is zero-filled before its              *)
(* constructor runs, so bIsDisplayingLoadingScreen (no initialiser in the  *)
(* header) starts false.                                                   *)
(***************************************************************************)
EXTENDS Integers, Sequences, FiniteSets, TLC

\* Largest clock reading explored.
MaxClock == 3
\* Largest HoldLoadingScreenAdditionalSecs explored.
MaxHold == 2
\* The timed scenario: the clock reading it is centred on (100.0 s), and
\* the tenths of a second explored after it.
ScenarioNow == 1000
ScenarioSpan == 22

VARIABLES
    \* ---- ULoadingScreenSettings and host queries, as the last evaluation read them
    bForceDisplayLoadingScreen,
    bShowLoadingScreenAdditionalSecsInEditor,
    WorldState,
    \* ---- ULoadingScreenSettings and host state that queries read as well
    HoldLoadingScreenAdditionalSecs,
    Seconds,
    GIsEditor,
    \* ---- UGameViewportClient and the delegates of FCoreUObjectDelegates
    bDisableWorldRendering,
    PreLoadMapWithContextBound,
    PostLoadMapWithWorldBound,
    Deinitialized,
    \* ---- ULoadingScreenSubsystem fields
    bIsDisplayingLoadingScreen,
    LoadingScreenStateReason,
    LoadingScreenLastDismissedTimestamp,
    bIsDisplayedByGameLogic,
    UserSpecifiedLoadingScreenReason,
    LoadingScreenWidget,
    \* ---- call: the evaluating or tearing-down handler that has just returned
    \* ---- ("none" once the clock, the hold setting or the game-logic flag has
    \* ---- been touched since).  Of the last evaluation: the
    \* ---- locals of ShouldShowLoadingScreen, what the evaluation before it
    \* ---- found, and whether a hold was pending when it began.  events: the
    \* ---- broadcasts and presenter commands of the last call that issued any.
    \* ---- caller: the handler that made the UpdateLoadingScreen call `call`
    \* ---- names ("none" when `call` names no evaluation)
    call,
    caller,
    bNeedToShowLoadingScreen,
    bForcedToShowLoadingScreen,
    PreviousNeed,
    bHoldWasPending,
    events,
    \* ---- the last two OnVisibilityChanged arguments ever broadcast
    VisibilityLog

readVars == <<bForceDisplayLoadingScreen, bShowLoadingScreenAdditionalSecsInEditor,
              WorldState>>
hostVars == <<HoldLoadingScreenAdditionalSecs, Seconds, GIsEditor>>
bindVars == <<PreLoadMapWithContextBound, PostLoadMapWithWorldBound, Deinitialized>>
logicVars == <<bIsDisplayedByGameLogic, UserSpecifiedLoadingScreenReason>>
screenVars == <<bIsDisplayingLoadingScreen, LoadingScreenStateReason,
                LoadingScreenLastDismissedTimestamp, LoadingScreenWidget,
                bDisableWorldRendering>>
evalVars == <<bNeedToShowLoadingScreen, bForcedToShowLoadingScreen, PreviousNeed,
              bHoldWasPending>>
vars == <<readVars, hostVars, bindVars, logicVars, screenVars, call, caller,
          evalVars, events, VisibilityLog>>

\* GameInstance->GetWorldContext(), Context->World(), World->HasBegunPlay().
WorldStates == {"NoContext", "NullWorld", "NotBegunPlay", "BegunPlay"}

\* The Reason arguments game logic passes.
UserReasons == {"", "cutscene"}

ReasonForced == "ForceDisplayLoadingScreen in settings is true"
ReasonNoContext == "The game instance has a null WorldContext"
ReasonNullWorld == "We have no world is null, FWorldContext's World()"
ReasonNotBegunPlay == "World hasn't begun play"
ReasonUnspecified == "Reason not specified in ForceDisplayStateByGameLogic. Assumed gameplay logic."
ReasonNone == "No reason to display."

\* FString::Printf("%.2f", h / 10) for h tenths of a second, h < 100.
Digits == <<"0", "1", "2", "3", "4", "5", "6", "7", "8", "9">>
PrintfSecs(h) ==
    IF h \in 0..99
    THEN Digits[(h \div 10) + 1] \o "." \o Digits[(h % 10) + 1] \o "0"
    ELSE "?"
ReasonHolding(h) ==
    "Keeping loading screen up for an additional " \o PrintfSecs(h)
        \o " seconds to allow texture streaming"

\* Notifications and presenter commands, in the order a handler issues them.
HoldTimeTriggered(t) == [name |-> "OnHoldTimeTriggered", arg |-> t]
VisibilityChanged(b) == [name |-> "OnVisibilityChanged", arg |-> b]
AddViewportWidgetContent == [name |-> "AddViewportWidgetContent", arg |-> TRUE]
RemoveViewportWidgetContent == [name |-> "RemoveViewportWidgetContent", arg |-> TRUE]
DisableWorldRendering(b) == [name |-> "bDisableWorldRendering", arg |-> b]
HighPriorityLoadingLocal(b) == [name |-> "bHighPriorityLoadingLocal", arg |-> b]

(***************************************************************************)
(* CheckForDisplayReason: ordered, first match wins.  force and world are  *)
(* what Settings and the game instance answer during this call.            *)
(***************************************************************************)
\* The game-logic reason with the caller's text never used.
UserReasonOrDefault_AlwaysDefault == ReasonUnspecified

UserReasonOrDefault ==
    IF UserSpecifiedLoadingScreenReason = ""
    THEN ReasonUnspecified
    ELSE UserSpecifiedLoadingScreenReason

\* CheckForDisplayReason without its first check.
CheckForDisplayReason_SettingsIgnored(force, world) ==
    IF world = "NoContext"
    THEN [need |-> TRUE, reason |-> ReasonNoContext, events |-> <<>>]
    ELSE IF world = "NullWorld"
    THEN [need |-> TRUE, reason |-> ReasonNullWorld, events |-> <<>>]
    ELSE IF world = "NotBegunPlay"
    THEN [need |-> TRUE, reason |-> ReasonNotBegunPlay, events |-> <<>>]
    ELSE IF bIsDisplayedByGameLogic = TRUE
    THEN [need |-> TRUE, reason |-> UserReasonOrDefault, events |-> <<>>]
    ELSE [need |-> FALSE, reason |-> ReasonNone, events |-> <<>>]

\* CheckForDisplayReason with the game-logic check ahead of the world checks.
CheckForDisplayReason_LogicFirst(force, world) ==
    IF force = TRUE
    THEN [need |-> TRUE, reason |-> ReasonForced, events |-> <<>>]
    ELSE IF bIsDisplayedByGameLogic = TRUE
    THEN [need |-> TRUE, reason |-> UserReasonOrDefault, events |-> <<>>]
    ELSE IF world = "NoContext"
    THEN [need |-> TRUE, reason |-> ReasonNoContext, events |-> <<>>]
    ELSE IF world = "NullWorld"
    THEN [need |-> TRUE, reason |-> ReasonNullWorld, events |-> <<>>]
    ELSE IF world = "NotBegunPlay"
    THEN [need |-> TRUE, reason |-> ReasonNotBegunPlay, events |-> <<>>]
    ELSE [need |-> FALSE, reason |-> ReasonNone, events |-> <<>>]

\* CheckForDisplayReason broadcasting when the settings force the screen.
CheckForDisplayReason_Notifying(force, world) ==
    IF force = TRUE
    THEN [need |-> TRUE, reason |-> ReasonForced,
          events |-> <<VisibilityChanged(TRUE)>>]
    ELSE IF world = "NoContext"
    THEN [need |-> TRUE, reason |-> ReasonNoContext, events |-> <<>>]
    ELSE IF world = "NullWorld"
    THEN [need |-> TRUE, reason |-> ReasonNullWorld, events |-> <<>>]
    ELSE IF world = "NotBegunPlay"
    THEN [need |-> TRUE, reason |-> ReasonNotBegunPlay, events |-> <<>>]
    ELSE IF bIsDisplayedByGameLogic = TRUE
    THEN [need |-> TRUE, reason |-> UserReasonOrDefault, events |-> <<>>]
    ELSE [need |-> FALSE, reason |-> ReasonNone, events |-> <<>>]

CheckForDisplayReason(force, world) ==
    IF force = TRUE
    THEN [need |-> TRUE, reason |-> ReasonForced, events |-> <<>>]
    ELSE IF world = "NoContext"
    THEN [need |-> TRUE, reason |-> ReasonNoContext, events |-> <<>>]
    ELSE IF world = "NullWorld"
    THEN [need |-> TRUE, reason |-> ReasonNullWorld, events |-> <<>>]
    ELSE IF world = "NotBegunPlay"
    THEN [need |-> TRUE, reason |-> ReasonNotBegunPlay, events |-> <<>>]
    ELSE IF bIsDisplayedByGameLogic = TRUE
    THEN [need |-> TRUE, reason |-> UserReasonOrDefault, events |-> <<>>]
    ELSE [need |-> FALSE, reason |-> ReasonNone, events |-> <<>>]

(***************************************************************************)
(* ShouldShowLoadingScreen: the hold-time bookkeeping.                     *)
(***************************************************************************)
\* FPlatformTime::Seconds()
CurrentTime == Seconds

\* The -1.0 the timestamp is reset to (and starts at).
TimestampNone == -1

\* HoldLoadingScreenTime without the editor override.
HoldLoadingScreenTime_NoEditorOverride(showInEditor) ==
    HoldLoadingScreenAdditionalSecs

\* double HoldLoadingScreenTime, after the editor override.
HoldLoadingScreenTime(showInEditor) ==
    IF GIsEditor /\ showInEditor = FALSE
    THEN 0
    ELSE HoldLoadingScreenAdditionalSecs

\* The setup test written with <= in place of <.
TimestampIsUnset_Inclusive == LoadingScreenLastDismissedTimestamp <= 0

\* "Setup the timestamp the first time this is hit"
TimestampIsUnset == LoadingScreenLastDismissedTimestamp < 0

\* The timestamp the else-branch works with after its setup step.
DismissedTimestamp ==
    IF TimestampIsUnset THEN CurrentTime ELSE LoadingScreenLastDismissedTimestamp

TimeSinceScreenDismissed == CurrentTime - DismissedTimestamp

\* The hold test written with <= in place of <.
HoldingScreenUp_Inclusive(showInEditor) ==
    /\ HoldLoadingScreenTime(showInEditor) > 0
    /\ TimeSinceScreenDismissed <= HoldLoadingScreenTime(showInEditor)

\* "Hold for an extra X seconds"
HoldingScreenUp(showInEditor) ==
    /\ HoldLoadingScreenTime(showInEditor) > 0
    /\ TimeSinceScreenDismissed < HoldLoadingScreenTime(showInEditor)

\* The timestamp left as it was when a reason to display was found.
TimestampOnNeed_Kept == LoadingScreenLastDismissedTimestamp

\* The timestamp written when a reason to display was found.
TimestampOnNeed == TimestampNone

\* The value returned, the fields written and the broadcasts made.
ShouldShowLoadingScreen(force, world, showInEditor) ==
    LET chk == CheckForDisplayReason(force, world)
        hold == HoldingScreenUp(showInEditor)
    IN  IF chk.need
        THEN [ret |-> TRUE, need |-> TRUE, forced |-> FALSE,
              timestamp |-> TimestampOnNeed,
              reason |-> chk.reason,
              render |-> bDisableWorldRendering,
              events |-> chk.events]
        ELSE [ret |-> hold, need |-> FALSE, forced |-> hold,
              timestamp |-> DismissedTimestamp,
              reason |-> IF hold
                         THEN ReasonHolding(HoldLoadingScreenAdditionalSecs)
                         ELSE chk.reason,
              render |-> IF hold THEN FALSE ELSE bDisableWorldRendering,
              events |-> chk.events
                         \o (IF TimestampIsUnset
                             THEN <<HoldTimeTriggered(HoldLoadingScreenTime(showInEditor))>>
                             ELSE <<>>)
                         \o (IF hold THEN <<DisableWorldRendering(FALSE)>> ELSE <<>>)]

(***************************************************************************)
(* ShowLoadingScreen / HideLoadingScreen / RemoveWidget /                  *)
(* ChangePerformanceSettings.                                              *)
(***************************************************************************)
\* GameViewportClient->GetWorld() with its AWorldSettings.
ViewportWorldSettings(world) == world \in {"NotBegunPlay", "BegunPlay"}

\* What ChangePerformanceSettings(b) writes.
ChangePerformanceSettings(b, world) ==
    <<DisableWorldRendering(b)>>
        \o (IF ViewportWorldSettings(world)
            THEN <<HighPriorityLoadingLocal(b)>>
            ELSE <<>>)

\* The events RemoveWidget issues.
RemoveWidget ==
    IF LoadingScreenWidget THEN <<RemoveViewportWidgetContent>> ELSE <<>>

\* ShowLoadingScreen without its early return.
AlreadyOnscreen_Unchecked == FALSE

\* "Already onscreen"
AlreadyOnscreen == bIsDisplayingLoadingScreen

\* HideLoadingScreen's early return taken on the wrong state.
AlreadyOffscreen_Inverted == bIsDisplayingLoadingScreen

\* "Already offscreen"
AlreadyOffscreen == ~bIsDisplayingLoadingScreen

\* ShowLoadingScreen without its broadcast.
ShowLoadingScreen_NoBroadcast(render, world) ==
    IF AlreadyOnscreen
    THEN [displayed |-> bIsDisplayingLoadingScreen,
          widget |-> LoadingScreenWidget,
          render |-> render,
          events |-> <<>>]
    ELSE [displayed |-> TRUE,
          widget |-> TRUE,
          render |-> TRUE,
          events |-> <<AddViewportWidgetContent>>
                     \o ChangePerformanceSettings(TRUE, world)]

\* render: bDisableWorldRendering as ShouldShowLoadingScreen left it.
ShowLoadingScreen(render, world) ==
    IF AlreadyOnscreen
    THEN [displayed |-> bIsDisplayingLoadingScreen,
          widget |-> LoadingScreenWidget,
          render |-> render,
          events |-> <<>>]
    ELSE [displayed |-> TRUE,
          widget |-> TRUE,
          render |-> TRUE,
          events |-> <<VisibilityChanged(TRUE), AddViewportWidgetContent>>
                     \o ChangePerformanceSettings(TRUE, world)]

\* HideLoadingScreen broadcasting before it removes the widget.
HideLoadingScreen_BroadcastFirst(render, world) ==
    IF AlreadyOffscreen
    THEN [displayed |-> bIsDisplayingLoadingScreen,
          widget |-> LoadingScreenWidget,
          render |-> render,
          events |-> <<>>]
    ELSE [displayed |-> FALSE,
          widget |-> FALSE,
          render |-> FALSE,
          events |-> <<VisibilityChanged(FALSE)>> \o RemoveWidget
                     \o ChangePerformanceSettings(FALSE, world)]

HideLoadingScreen(render, world) ==
    IF AlreadyOffscreen
    THEN [displayed |-> bIsDisplayingLoadingScreen,
          widget |-> LoadingScreenWidget,
          render |-> render,
          events |-> <<>>]
    ELSE [displayed |-> FALSE,
          widget |-> FALSE,
          render |-> FALSE,
          events |-> RemoveWidget \o ChangePerformanceSettings(FALSE, world)
                     \o <<VisibilityChanged(FALSE)>>]

\* The OnVisibilityChanged arguments among a call's events, in order.
Broadcasts(evs) ==
    LET vis == SelectSeq(evs, LAMBDA e : e.name = "OnVisibilityChanged")
    IN  [i \in 1..Len(vis) |-> vis[i].arg]

\* The last two OnVisibilityChanged arguments after a call that issued evs.
LogAfter(evs) ==
    LET all == VisibilityLog \o Broadcasts(evs)
    IN  IF Len(all) > 2 THEN SubSeq(all, Len(all) - 1, Len(all)) ELSE all

(***************************************************************************)
(* UpdateLoadingScreen: one evaluation and its application.                *)
(***************************************************************************)
UpdateLoadingScreen(force, world, showInEditor) ==
    \E should \in {ShouldShowLoadingScreen(force, world, showInEditor)} :
    \E apply \in {IF should.ret
                  THEN ShowLoadingScreen(should.render, world)
                  ELSE HideLoadingScreen(should.render, world)} :
        /\ bForceDisplayLoadingScreen' = force
        /\ WorldState' = world
        /\ bShowLoadingScreenAdditionalSecsInEditor' = showInEditor
        /\ LoadingScreenLastDismissedTimestamp' = should.timestamp
        /\ LoadingScreenStateReason' = should.reason
        /\ bIsDisplayingLoadingScreen' = apply.displayed
        /\ LoadingScreenWidget' = apply.widget
        /\ bDisableWorldRendering' = apply.render
        /\ call' = "UpdateLoadingScreen"
        /\ bNeedToShowLoadingScreen' = should.need
        /\ bForcedToShowLoadingScreen' = should.forced
        /\ PreviousNeed' = IF LoadingScreenStateReason = "" THEN "none"
                           ELSE IF bNeedToShowLoadingScreen THEN "need" ELSE "clear"
        /\ bHoldWasPending' = (bIsDisplayingLoadingScreen
                                /\ LoadingScreenLastDismissedTimestamp # TimestampNone)
        /\ events' = should.events \o apply.events
        /\ VisibilityLog' = LogAfter(should.events \o apply.events)
        /\ UNCHANGED <<hostVars, bindVars, logicVars>>

\* A handler that neither evaluates nor reaches the presenter.
NoEvaluation == UNCHANGED <<evalVars, events, VisibilityLog>>

(***************************************************************************)
(* Handlers.                                                               *)
(***************************************************************************)
Initialize ==
    /\ ~PreLoadMapWithContextBound
    /\ ~Deinitialized
    /\ PreLoadMapWithContextBound' = TRUE
    /\ PostLoadMapWithWorldBound' = TRUE
    /\ call' = "none"
    /\ caller' = "none"
    /\ NoEvaluation
    /\ UNCHANGED <<readVars, hostVars, Deinitialized, logicVars, screenVars>>

\* RemoveWidget, then PreLoadMap.RemoveAll and PostLoadMapWithWorld.RemoveAll:
\* HandlePreLoadMap was added to PreLoadMapWithContext, which is left alone.
Deinitialize ==
    /\ PreLoadMapWithContextBound
    /\ ~Deinitialized
    /\ Deinitialized' = TRUE
    /\ LoadingScreenWidget' = FALSE
    /\ PostLoadMapWithWorldBound' = FALSE
    /\ call' = "Deinitialize"
    /\ caller' = "none"
    /\ events' = RemoveWidget
    /\ UNCHANGED <<evalVars, VisibilityLog>>
    /\ UNCHANGED <<readVars, hostVars, PreLoadMapWithContextBound, logicVars,
                   bIsDisplayingLoadingScreen, LoadingScreenStateReason,
                   LoadingScreenLastDismissedTimestamp, bDisableWorldRendering>>

\* FTickableGameObject: registered for the object's whole life, IsTickable
\* excludes only the class default object.
\* GIsEditor && ... : the setting is read only in the editor.
ShowInEditorRead ==
    IF GIsEditor THEN BOOLEAN ELSE {bShowLoadingScreenAdditionalSecsInEditor}

Tick ==
    /\ PreLoadMapWithContextBound
    /\ \E force \in BOOLEAN, world \in WorldStates, showInEditor \in ShowInEditorRead :
          UpdateLoadingScreen(force, world, showInEditor)
    /\ caller' = "Tick"

\* HandlePreLoadMap without its guard.
HandlePreLoadMapWhen_Unguarded(initialized) ==
    /\ PreLoadMapWithContextBound
    /\ \E force \in BOOLEAN, world \in WorldStates, showInEditor \in ShowInEditorRead :
          UpdateLoadingScreen(force, world, showInEditor)
    /\ caller' = "HandlePreLoadMap"

\* initialized: GEngine->IsInitialized()
HandlePreLoadMapWhen(initialized) ==
    /\ PreLoadMapWithContextBound
    /\ IF initialized
       THEN /\ \E force \in BOOLEAN, world \in WorldStates,
                  showInEditor \in ShowInEditorRead :
                  UpdateLoadingScreen(force, world, showInEditor)
            /\ caller' = "HandlePreLoadMap"
       ELSE /\ NoEvaluation
            /\ UNCHANGED <<call, caller, readVars, hostVars, bindVars, logicVars,
                           screenVars>>

HandlePreLoadMap == \E initialized \in BOOLEAN : HandlePreLoadMapWhen(initialized)

HandlePostLoadMap ==
    /\ PostLoadMapWithWorldBound
    /\ NoEvaluation
    /\ UNCHANGED <<call, caller, readVars, hostVars, bindVars, logicVars, screenVars>>

\* ForceDisplayStateByGameLogic writing the display flag itself.
ForceDisplayStateByGameLogic_Immediate(Visibility, Reason) ==
    /\ PreLoadMapWithContextBound
    /\ UserSpecifiedLoadingScreenReason' = Reason
    /\ bIsDisplayedByGameLogic' = Visibility
    /\ bIsDisplayingLoadingScreen' = Visibility
    /\ call' = "none"
    /\ caller' = "none"
    /\ NoEvaluation
    /\ UNCHANGED <<readVars, hostVars, bindVars, LoadingScreenStateReason,
                   LoadingScreenLastDismissedTimestamp, LoadingScreenWidget,
                   bDisableWorldRendering>>

ForceDisplayStateByGameLogic(Visibility, Reason) ==
    /\ PreLoadMapWithContextBound
    /\ UserSpecifiedLoadingScreenReason' = Reason
    /\ bIsDisplayedByGameLogic' = Visibility
    /\ call' = "none"
    /\ caller' = "none"
    /\ NoEvaluation
    /\ UNCHANGED <<readVars, hostVars, bindVars, screenVars>>

(***************************************************************************)
(* The clock and the hold setting between calls (queries read them too).   *)
(***************************************************************************)
AdvanceClock ==
    /\ Seconds < MaxClock
    /\ Seconds' = Seconds + 1
    /\ call' = "none"
    /\ caller' = "none"
    /\ UNCHANGED <<readVars, HoldLoadingScreenAdditionalSecs, GIsEditor, bindVars,
                   logicVars, screenVars, evalVars, events, VisibilityLog>>

EditHoldSecs ==
    /\ \E h \in 0..MaxHold :
          /\ h # HoldLoadingScreenAdditionalSecs
          /\ HoldLoadingScreenAdditionalSecs' = h
    /\ call' = "none"
    /\ caller' = "none"
    /\ UNCHANGED <<readVars, Seconds, GIsEditor, bindVars, logicVars, screenVars,
                   evalVars, events, VisibilityLog>>

Init ==
    /\ bForceDisplayLoadingScreen = FALSE
    /\ bShowLoadingScreenAdditionalSecsInEditor = FALSE
    /\ WorldState = "NoContext"
    /\ HoldLoadingScreenAdditionalSecs \in 0..MaxHold
    /\ Seconds = 0
    /\ GIsEditor \in BOOLEAN
    /\ bDisableWorldRendering = FALSE
    /\ PreLoadMapWithContextBound = FALSE
    /\ PostLoadMapWithWorldBound = FALSE
    /\ Deinitialized = FALSE
    /\ bIsDisplayingLoadingScreen = FALSE
    /\ LoadingScreenStateReason = ""
    /\ LoadingScreenLastDismissedTimestamp = TimestampNone
    /\ bIsDisplayedByGameLogic = FALSE
    /\ UserSpecifiedLoadingScreenReason = ""
    /\ LoadingScreenWidget = FALSE
    /\ call = "none"
    /\ caller = "none"
    /\ bNeedToShowLoadingScreen = FALSE
    /\ bForcedToShowLoadingScreen = FALSE
    /\ PreviousNeed = "none"
    /\ bHoldWasPending = FALSE
    /\ events = <<>>
    /\ VisibilityLog = <<>>

Next ==
    \/ Initialize
    \/ Deinitialize
    \/ Tick
    \/ HandlePreLoadMap
    \/ HandlePostLoadMap
    \/ \E v \in BOOLEAN, r \in UserReasons : ForceDisplayStateByGameLogic(v, r)
    \/ AdvanceClock
    \/ EditHoldSecs

Spec == Init /\ [][Next]_vars

(***************************************************************************)
(* The hold scenario: the settings stay as they are (nothing forced, a     *)
(* hold > 0, no editor suppression), game logic asks for nothing, the      *)
(* first evaluation finds a world that has not begun play, and a world     *)
(* that has begun play stays so.  The engine ticks every frame and the     *)
(* clock keeps advancing.                                                  *)
(***************************************************************************)
HoldWorldRead ==
    IF LoadingScreenStateReason = "" THEN {"NotBegunPlay"}
    ELSE IF WorldState = "BegunPlay" THEN {"BegunPlay"}
    ELSE {"NotBegunPlay", "BegunPlay"}

HoldShowInEditorRead ==
    IF GIsEditor THEN {TRUE} ELSE {bShowLoadingScreenAdditionalSecsInEditor}

TickHold ==
    /\ PreLoadMapWithContextBound
    /\ \E world \in HoldWorldRead, showInEditor \in HoldShowInEditorRead :
          UpdateLoadingScreen(FALSE, world, showInEditor)
    /\ caller' = "Tick"

InitHold ==
    /\ Init
    /\ HoldLoadingScreenAdditionalSecs > 0

NextHold ==
    \/ Initialize
    \/ TickHold
    \/ AdvanceClock

SpecHold ==
    /\ InitHold
    /\ [][NextHold]_vars
    /\ WF_vars(TickHold)
    /\ WF_vars(AdvanceClock)

(***************************************************************************)
(* The timed scenario: the hold scenario with the default hold of 2.0 s on *)
(* a clock that reads 99.9 s at the start and is followed, a tenth of a    *)
(* second at a time, up to ScenarioSpan tenths past ScenarioNow.           *)
(***************************************************************************)
\* float HoldLoadingScreenAdditionalSecs = 2.0f
DefaultHoldSecs == 20

AdvanceScenarioClock ==
    /\ Seconds < ScenarioNow + ScenarioSpan
    /\ Seconds' = Seconds + 1
    /\ call' = "none"
    /\ caller' = "none"
    /\ UNCHANGED <<readVars, HoldLoadingScreenAdditionalSecs, GIsEditor, bindVars,
                   logicVars, screenVars, evalVars, events, VisibilityLog>>

InitScenario ==
    /\ bForceDisplayLoadingScreen = FALSE
    /\ bShowLoadingScreenAdditionalSecsInEditor = FALSE
    /\ WorldState = "NoContext"
    /\ HoldLoadingScreenAdditionalSecs = DefaultHoldSecs
    /\ Seconds = ScenarioNow - 1
    /\ GIsEditor \in BOOLEAN
    /\ bDisableWorldRendering = FALSE
    /\ PreLoadMapWithContextBound = FALSE
    /\ PostLoadMapWithWorldBound = FALSE
    /\ Deinitialized = FALSE
    /\ bIsDisplayingLoadingScreen = FALSE
    /\ LoadingScreenStateReason = ""
    /\ LoadingScreenLastDismissedTimestamp = TimestampNone
    /\ bIsDisplayedByGameLogic = FALSE
    /\ UserSpecifiedLoadingScreenReason = ""
    /\ LoadingScreenWidget = FALSE
    /\ call = "none"
    /\ caller = "none"
    /\ bNeedToShowLoadingScreen = FALSE
    /\ bForcedToShowLoadingScreen = FALSE
    /\ PreviousNeed = "none"
    /\ bHoldWasPending = FALSE
    /\ events = <<>>
    /\ VisibilityLog = <<>>

NextScenario ==
    \/ Initialize
    \/ TickHold
    \/ AdvanceScenarioClock

SpecScenario == InitScenario /\ [][NextScenario]_vars

(***************************************************************************)
(* Queries.                                                                *)
(***************************************************************************)
IsLoadingScreenDisplayed == bIsDisplayingLoadingScreen

IsWaitingForAdditionalTime ==
    IF bIsDisplayingLoadingScreen = FALSE
    THEN FALSE
    ELSE IF HoldLoadingScreenAdditionalSecs <= 0
    THEN FALSE
    ELSE IF LoadingScreenLastDismissedTimestamp > 0
    THEN TRUE
    ELSE FALSE

\* The remaining time with the two clock readings swapped.
GetAdditionalTimeRemaining_Swapped ==
    HoldLoadingScreenAdditionalSecs - (LoadingScreenLastDismissedTimestamp - CurrentTime)

GetAdditionalTimeRemaining ==
    HoldLoadingScreenAdditionalSecs - (CurrentTime - LoadingScreenLastDismissedTimestamp)

(***************************************************************************)
(* Vocabulary of the properties.                                           *)
(***************************************************************************)
\* The state is the one an evaluation (UpdateLoadingScreen) has just left.
Evaluated == call = "UpdateLoadingScreen"

\* return bNeedToShowLoadingScreen || bForcedToShowLoadingScreen
ShouldShowResult == bNeedToShowLoadingScreen \/ bForcedToShowLoadingScreen

\* The hold duration in force: the configured one, 0 under editor suppression.
EditorSuppression == GIsEditor /\ ~bShowLoadingScreenAdditionalSecsInEditor
EffectiveHold == IF EditorSuppression THEN 0 ELSE HoldLoadingScreenAdditionalSecs

TimestampSet == LoadingScreenLastDismissedTimestamp # TimestampNone

\* The OnHoldTimeTriggered broadcasts of the last call, in order.
HoldTimeEvents == SelectSeq(events, LAMBDA e : e.name = "OnHoldTimeTriggered")

\* The OnVisibilityChanged arguments of the last call, in order.
VisibilityEvents == Broadcasts(events)

(***************************************************************************)
(* C1: in the hold scenario, with H = HoldLoadingScreenAdditionalSecs > 0: *)
(* once the world has begun play, every evaluation leaves the screen       *)
(* displayed exactly when less than H has elapsed since the timestamp (the *)
(* clock reading of the first evaluation that found the world begun);      *)
(* GetAdditionalTimeRemaining never increases while the timestamp is set;  *)
(* the screen, once hidden, stays hidden, so OnVisibilityChanged carries   *)
(* true once and then false once; and the screen is eventually hidden      *)
(* (whenever the clock readings explored reach timestamp + H).             *)
(***************************************************************************)
HoldDecidesDisplay ==
    (Evaluated /\ WorldState = "BegunPlay")
        => /\ TimestampSet
           /\ bIsDisplayingLoadingScreen
                <=> (Seconds - LoadingScreenLastDismissedTimestamp
                        < HoldLoadingScreenAdditionalSecs)

OneFlip ==
    /\ VisibilityLog \in {<<>>, <<TRUE>>, <<TRUE, FALSE>>}
    /\ (Evaluated /\ WorldState = "NotBegunPlay") => bIsDisplayingLoadingScreen

RemainingNeverIncreases ==
    (TimestampSet /\ LoadingScreenLastDismissedTimestamp' # TimestampNone)
        => GetAdditionalTimeRemaining' <= GetAdditionalTimeRemaining

StaysHidden ==
    (WorldState = "BegunPlay" /\ ~bIsDisplayingLoadingScreen)
        => ~bIsDisplayingLoadingScreen'

HoldCanRunOut ==
    /\ WorldState = "BegunPlay"
    /\ TimestampSet
    /\ LoadingScreenLastDismissedTimestamp + HoldLoadingScreenAdditionalSecs <= MaxClock

C1_HiddenAfterHold ==
    /\ [](HoldDecidesDisplay /\ OneFlip)
    /\ [][RemainingNeverIncreases /\ StaysHidden]_vars
    /\ (HoldCanRunOut ~> ~bIsDisplayingLoadingScreen)

\* The evaluation at which exactly H = 2 had elapsed hid the screen that the
\* world not having begun play had put up.
C1_Witness ==
    /\ Evaluated
    /\ WorldState = "BegunPlay"
    /\ HoldLoadingScreenAdditionalSecs = 2
    /\ Seconds - LoadingScreenLastDismissedTimestamp = 2
    /\ ~bIsDisplayingLoadingScreen
    /\ VisibilityLog = <<TRUE, FALSE>>
    /\ VisibilityEvents = <<FALSE>>

(***************************************************************************)
(* C2: whenever an evaluation reads bForceDisplayLoadingScreen as true,    *)
(* ShouldShowLoadingScreen returns true and the loading screen is          *)
(* displayed afterwards, whatever the other inputs and the prior state.    *)
(***************************************************************************)
C2_ForceDisplayShows ==
    (Evaluated /\ bForceDisplayLoadingScreen)
        => (ShouldShowResult /\ bIsDisplayingLoadingScreen)

\* A forced evaluation that showed a hidden screen although the world had
\* begun play and game logic asked for nothing.
C2_Witness ==
    /\ Evaluated
    /\ bForceDisplayLoadingScreen
    /\ WorldState = "BegunPlay"
    /\ ~bIsDisplayedByGameLogic
    /\ HoldLoadingScreenAdditionalSecs = 0
    /\ bIsDisplayingLoadingScreen
    /\ VisibilityEvents = <<TRUE>>

(***************************************************************************)
(* C3: an evaluation that finds a reason to display while a hold is        *)
(* pending (timestamp set, screen displayed) leaves the timestamp unset,   *)
(* IsWaitingForAdditionalTime false, the screen displayed, and broadcasts  *)
(* no OnVisibilityChanged.                                                 *)
(***************************************************************************)
C3_ReappearanceCancelsHold ==
    (Evaluated /\ bHoldWasPending /\ bNeedToShowLoadingScreen)
        => /\ LoadingScreenLastDismissedTimestamp = TimestampNone
           /\ ~IsWaitingForAdditionalTime
           /\ bIsDisplayingLoadingScreen
           /\ VisibilityEvents = <<>>

\* A reason reappeared one clock unit into a hold of two.
C3_Witness ==
    /\ Evaluated
    /\ bHoldWasPending
    /\ bNeedToShowLoadingScreen
    /\ PreviousNeed = "clear"
    /\ HoldLoadingScreenAdditionalSecs = 2
    /\ ~EditorSuppression
    /\ Seconds >= 1
    /\ bIsDisplayingLoadingScreen

(***************************************************************************)
(* C4: an evaluation broadcasts OnHoldTimeTriggered exactly when it finds  *)
(* no reason to display and the evaluation before it found one (or there   *)
(* was none before it); it broadcasts it once, carrying the effective hold *)
(* duration; this for every clock reading, 0 included.                     *)
(***************************************************************************)
C4_HoldTimeOncePerEpisode ==
    Evaluated
        => HoldTimeEvents =
              IF ~bNeedToShowLoadingScreen /\ PreviousNeed # "clear"
              THEN <<HoldTimeTriggered(EffectiveHold)>>
              ELSE <<>>

\* A later evaluation of a hold episode that began at clock reading 0: the
\* hold is still running and nothing is broadcast again.
C4_Witness ==
    /\ Evaluated
    /\ ~bNeedToShowLoadingScreen
    /\ PreviousNeed = "clear"
    /\ LoadingScreenLastDismissedTimestamp = 0
    /\ bForcedToShowLoadingScreen
    /\ Seconds >= 1
    /\ HoldTimeEvents = <<>>

(***************************************************************************)
(* C5: an evaluation that directly follows an evaluation, with the same    *)
(* inputs read and nothing changed in between, broadcasts no               *)
(* OnVisibilityChanged; and the arguments of successive OnVisibilityChanged*)
(* broadcasts alternate, the first one being true.                         *)
(***************************************************************************)
VisibilityAlternates ==
    /\ Len(VisibilityLog) = 1 => VisibilityLog[1] = TRUE
    /\ Len(VisibilityLog) = 2 => VisibilityLog[1] # VisibilityLog[2]

RepeatedEvaluation ==
    /\ call = "UpdateLoadingScreen"
    /\ call' = "UpdateLoadingScreen"
    /\ readVars' = readVars

C5_NoDuplicateVisibilityChanged ==
    /\ []VisibilityAlternates
    /\ [][RepeatedEvaluation => Broadcasts(events') = <<>>]_vars

\* Shown, hidden and shown again, then evaluated once more with the reason
\* still there: nothing is broadcast.
C5_Witness ==
    /\ Evaluated
    /\ PreviousNeed = "need"
    /\ bNeedToShowLoadingScreen
    /\ bIsDisplayingLoadingScreen
    /\ events = <<>>
    /\ VisibilityLog = <<FALSE, TRUE>>

(***************************************************************************)
(* C6: in the editor with bShowLoadingScreenAdditionalSecsInEditor false,  *)
(* an evaluation that finds no reason to display hides the screen at once  *)
(* and any OnHoldTimeTriggered it broadcasts carries 0, for every          *)
(* configured HoldLoadingScreenAdditionalSecs.                             *)
(***************************************************************************)
C6_EditorSuppressesHold ==
    (Evaluated /\ EditorSuppression /\ ~bNeedToShowLoadingScreen)
        => /\ ~bIsDisplayingLoadingScreen
           /\ ~ShouldShowResult
           /\ \A i \in 1..Len(HoldTimeEvents) : HoldTimeEvents[i].arg = 0

\* With the largest hold configured, the evaluation at which the reason
\* cleared broadcast a hold of 0 and hid the displayed screen.
C6_Witness ==
    /\ Evaluated
    /\ EditorSuppression
    /\ ~bNeedToShowLoadingScreen
    /\ PreviousNeed = "need"
    /\ HoldLoadingScreenAdditionalSecs = MaxHold
    /\ HoldTimeEvents = <<HoldTimeTriggered(0)>>
    /\ VisibilityEvents = <<FALSE>>

(***************************************************************************)
(* C7 (as stated): a set timestamp implies that the screen is displayed    *)
(* and that the last evaluation was inside its hold window.                *)
(***************************************************************************)
C7_TimestampImpliesHolding ==
    TimestampSet => (bIsDisplayingLoadingScreen /\ bForcedToShowLoadingScreen)

(***************************************************************************)
(* C7 (amended): the timestamp stays set after the hold; while it is set,  *)
(* the screen is displayed exactly when the last evaluation was inside its *)
(* hold window (effective hold > 0 and less than it elapsed since the      *)
(* timestamp).                                                             *)
(***************************************************************************)
C7_TimestampTracksHold ==
    /\ TimestampSet
          => (bIsDisplayingLoadingScreen <=> bForcedToShowLoadingScreen)
    /\ (Evaluated /\ TimestampSet)
          => (bIsDisplayingLoadingScreen
                <=> (EffectiveHold > 0
                     /\ Seconds - LoadingScreenLastDismissedTimestamp < EffectiveHold))

\* The hold ran out: the screen is hidden and the timestamp is still set.
C7_Witness ==
    /\ Evaluated
    /\ TimestampSet
    /\ EffectiveHold > 0
    /\ Seconds - LoadingScreenLastDismissedTimestamp >= EffectiveHold
    /\ ~bIsDisplayingLoadingScreen
    /\ VisibilityEvents = <<FALSE>>

(***************************************************************************)
(* C8: bIsDisplayingLoadingScreen equals the argument of the most recent   *)
(* OnVisibilityChanged broadcast, and is false while none was broadcast.   *)
(***************************************************************************)
C8_DisplayedMirrorsBroadcast ==
    bIsDisplayingLoadingScreen
        = IF VisibilityLog = <<>> THEN FALSE ELSE VisibilityLog[Len(VisibilityLog)]

\* Shown and hidden again.
C8_Witness ==
    /\ Evaluated
    /\ VisibilityLog = <<TRUE, FALSE>>
    /\ VisibilityEvents = <<FALSE>>
    /\ ~bIsDisplayingLoadingScreen

(***************************************************************************)
(* C9 (as stated): the widget is attached to the viewport exactly when     *)
(* bIsDisplayingLoadingScreen is true, Deinitialize included.              *)
(***************************************************************************)
C9_WidgetMirrorsDisplayed ==
    LoadingScreenWidget <=> bIsDisplayingLoadingScreen

(***************************************************************************)
(* C10 (as stated): IsWaitingForAdditionalTime is true exactly when the    *)
(* screen is displayed, the timestamp is set and                           *)
(* HoldLoadingScreenAdditionalSecs > 0, a timestamp of 0 included.         *)
(***************************************************************************)
C10_IsWaitingIffHoldPending ==
    IsWaitingForAdditionalTime
        <=> (/\ bIsDisplayingLoadingScreen
             /\ TimestampSet
             /\ HoldLoadingScreenAdditionalSecs > 0)

(***************************************************************************)
(* C11 (as stated): once ForceDisplayStateByGameLogic(Visibility, Reason)  *)
(* has been called (with a non-empty Reason, which only a call can leave   *)
(* behind), an evaluation leaves the screen displayed when Visibility was  *)
(* true and hidden when it was false.                                      *)
(***************************************************************************)
C11_GameLogicForcesVisibility ==
    (Evaluated /\ UserSpecifiedLoadingScreenReason # "")
        => (bIsDisplayingLoadingScreen <=> bIsDisplayedByGameLogic)

(***************************************************************************)
(* C12: an evaluation made with bIsDisplayedByGameLogic true and a         *)
(* non-empty UserSpecifiedLoadingScreenReason R, with nothing forced in    *)
(* the settings and a world that has begun play, leaves                    *)
(* LoadingScreenStateReason = R and the screen displayed, whether or not a *)
(* hold was pending before.                                                *)
(***************************************************************************)
C12_GameLogicReasonShown ==
    (/\ Evaluated
     /\ ~bForceDisplayLoadingScreen
     /\ WorldState = "BegunPlay"
     /\ bIsDisplayedByGameLogic
     /\ UserSpecifiedLoadingScreenReason # "")
        => /\ LoadingScreenStateReason = UserSpecifiedLoadingScreenReason
           /\ bIsDisplayingLoadingScreen
           /\ bNeedToShowLoadingScreen

\* Game logic asked for the screen with "cutscene" during a hold; the next
\* evaluation kept the screen up for that reason and cancelled the hold.
C12_Witness ==
    /\ Evaluated
    /\ ~bForceDisplayLoadingScreen
    /\ WorldState = "BegunPlay"
    /\ bIsDisplayedByGameLogic
    /\ UserSpecifiedLoadingScreenReason = "cutscene"
    /\ bHoldWasPending
    /\ PreviousNeed = "clear"
    /\ LoadingScreenStateReason = "cutscene"
    /\ bIsDisplayingLoadingScreen
    /\ ~TimestampSet

(***************************************************************************)
(* C13: a ForceDisplayStateByGameLogic call (the only step that changes    *)
(* bIsDisplayedByGameLogic or UserSpecifiedLoadingScreenReason) leaves     *)
(* bIsDisplayingLoadingScreen, the timestamp, LoadingScreenStateReason,    *)
(* the widget and the viewport's rendering flag unchanged and issues no    *)
(* event; and no step other than an evaluation broadcasts                  *)
(* OnHoldTimeTriggered or OnVisibilityChanged.                             *)
(***************************************************************************)
Notifications(evs) ==
    SelectSeq(evs, LAMBDA e : e.name \in {"OnHoldTimeTriggered", "OnVisibilityChanged"})

GameLogicCallFrame ==
    logicVars' # logicVars
        => /\ UNCHANGED <<screenVars, events, VisibilityLog>>
           /\ UNCHANGED <<readVars, hostVars, bindVars, evalVars>>

OnlyEvaluationsNotify ==
    call' # "UpdateLoadingScreen"
        => /\ VisibilityLog' = VisibilityLog
           /\ events' # events => Notifications(events') = <<>>

C13_GameLogicCallOnlySetsFlags ==
    [][GameLogicCallFrame /\ OnlyEvaluationsNotify]_vars

\* Game logic has asked for the screen with "cutscene" since the last
\* evaluation, which had hidden it: it is still hidden, with that
\* evaluation's reason and events.
C13_Witness ==
    /\ call = "none"
    /\ bIsDisplayedByGameLogic
    /\ UserSpecifiedLoadingScreenReason = "cutscene"
    /\ WorldState = "BegunPlay"
    /\ ~bIsDisplayingLoadingScreen
    /\ ~LoadingScreenWidget
    /\ LoadingScreenStateReason = ReasonNone
    /\ VisibilityEvents = <<FALSE>>

(***************************************************************************)
(* C14: HandlePreLoadMap, when GEngine->IsInitialized() is true, makes one *)
(* evaluation and applies it before returning (at most one                 *)
(* OnHoldTimeTriggered and one OnVisibilityChanged), so a reason to        *)
(* display found by it leaves the screen displayed; when it is false the   *)
(* handler changes no field, reaches no presenter and broadcasts nothing;  *)
(* and an evaluation made by the next Tick displays the screen for the     *)
(* reason it finds just the same.                                          *)
(***************************************************************************)
EvaluationDisplaysReason ==
    Evaluated
        => /\ caller \in {"Tick", "HandlePreLoadMap"}
           /\ bNeedToShowLoadingScreen => bIsDisplayingLoadingScreen

\* Every step but a HandlePreLoadMap evaluation resets or keeps caller.
PreLoadMapEvaluatesOnce ==
    caller' = "HandlePreLoadMap"
        => /\ call' = "UpdateLoadingScreen"
           /\ LoadingScreenStateReason' # ""
           /\ Len(SelectSeq(events', LAMBDA e : e.name = "OnHoldTimeTriggered")) <= 1
           /\ Len(Broadcasts(events')) <= 1
           /\ bIsDisplayingLoadingScreen' = (bNeedToShowLoadingScreen'
                                               \/ bForcedToShowLoadingScreen')

PreLoadMapSkipsUninitialized ==
    HandlePreLoadMapWhen(FALSE)
        => /\ UNCHANGED <<screenVars, logicVars, events, VisibilityLog>>
           /\ UNCHANGED <<call, caller, evalVars>>

C14_PreLoadMapEvaluatesWhenInitialized ==
    /\ []EvaluationDisplaysReason
    /\ [][PreLoadMapEvaluatesOnce /\ PreLoadMapSkipsUninitialized]_vars

\* The first evaluation ever was made by HandlePreLoadMap, before any Tick:
\* it found the world not begun and displayed the screen.
C14_Witness ==
    /\ Evaluated
    /\ caller = "HandlePreLoadMap"
    /\ PreviousNeed = "none"
    /\ WorldState = "NotBegunPlay"
    /\ bNeedToShowLoadingScreen
    /\ bIsDisplayingLoadingScreen
    /\ LoadingScreenWidget
    /\ VisibilityLog = <<TRUE>>
    /\ VisibilityEvents = <<TRUE>>

(***************************************************************************)
(* C20 (as stated): after Deinitialize no PreLoadMapWithContext or         *)
(* PostLoadMapWithWorld event reaches the subsystem: neither delegate is   *)
(* bound any more and no evaluation is made by HandlePreLoadMap.           *)
(***************************************************************************)
C20_DeinitializeUnbindsAll ==
    Deinitialized
        => /\ ~PostLoadMapWithWorldBound
           /\ ~(Evaluated /\ caller = "HandlePreLoadMap")

(***************************************************************************)
(* C15: in the timed scenario (hold 2.0 s): an evaluation that finds no    *)
(* reason to display sets the timestamp to the clock reading if it was     *)
(* unset and keeps it otherwise, so the timestamp is the reading of the    *)
(* first such evaluation; while IsWaitingForAdditionalTime is true,        *)
(* GetAdditionalTimeRemaining is the hold minus the time since the         *)
(* timestamp, and right after an evaluation it lies in (0, hold].  With    *)
(* the timestamp at ScenarioNow (100.0): the evaluations at 100.0 and at   *)
(* 101.5 leave the screen displayed, with 0.5 s remaining at 101.5, and an *)
(* evaluation at 102.1 that finds the screen displayed hides it and        *)
(* broadcasts OnVisibilityChanged(false).                                  *)
(***************************************************************************)
TimestampIsFirstClearReading ==
    (call' = "UpdateLoadingScreen" /\ ~bNeedToShowLoadingScreen')
        => LoadingScreenLastDismissedTimestamp'
              = IF PreviousNeed' = "clear"
                THEN LoadingScreenLastDismissedTimestamp
                ELSE Seconds

RemainingIsHoldMinusElapsed ==
    IsWaitingForAdditionalTime
        => /\ GetAdditionalTimeRemaining + (Seconds - LoadingScreenLastDismissedTimestamp)
                = HoldLoadingScreenAdditionalSecs
           /\ Evaluated
                => /\ GetAdditionalTimeRemaining > 0
                   /\ GetAdditionalTimeRemaining <= HoldLoadingScreenAdditionalSecs

ScenarioReadings ==
    (Evaluated /\ LoadingScreenLastDismissedTimestamp = ScenarioNow)
        => /\ Seconds = ScenarioNow
                => /\ bIsDisplayingLoadingScreen
                   /\ PreviousNeed = "need"
                        => HoldTimeEvents = <<HoldTimeTriggered(DefaultHoldSecs)>>
           /\ Seconds = ScenarioNow + 15
                => /\ bIsDisplayingLoadingScreen
                   /\ IsWaitingForAdditionalTime
                   /\ GetAdditionalTimeRemaining = 5
           /\ Seconds = ScenarioNow + 21 => ~bIsDisplayingLoadingScreen

ScenarioHide ==
    (/\ call' = "UpdateLoadingScreen"
     /\ LoadingScreenLastDismissedTimestamp = ScenarioNow
     /\ Seconds = ScenarioNow + 21
     /\ bIsDisplayingLoadingScreen)
        => /\ ~bIsDisplayingLoadingScreen'
           /\ Broadcasts(events') = <<FALSE>>

C15_RemainingTimeInScenario ==
    /\ [](RemainingIsHoldMinusElapsed /\ ScenarioReadings)
    /\ [][TimestampIsFirstClearReading /\ ScenarioHide]_vars

\* The world was found begun at 100.0; the screen, still up after the
\* evaluation before, is hidden by the evaluation at 102.1.
C15_Witness ==
    /\ Evaluated
    /\ LoadingScreenLastDismissedTimestamp = ScenarioNow
    /\ Seconds = ScenarioNow + 21
    /\ HoldLoadingScreenAdditionalSecs = DefaultHoldSecs
    /\ ~bIsDisplayingLoadingScreen
    /\ VisibilityEvents = <<FALSE>>
    /\ VisibilityLog = <<TRUE, FALSE>>

(***************************************************************************)
(* C16: the reason an evaluation leaves is that of the first check that    *)
(* holds, in the order: forced in the settings, no world context, null     *)
(* world, world has not begun play, game logic (its text being             *)
(* UserSpecifiedLoadingScreenReason, or the default text when that is      *)
(* empty); a reason to display is found exactly when one of them holds,    *)
(* and otherwise the reason is "No reason to display." unless the hold     *)
(* replaces it.                                                            *)
(***************************************************************************)
C16_FirstMatchingCheckWins ==
    Evaluated
        => /\ bForceDisplayLoadingScreen
                => LoadingScreenStateReason = ReasonForced
           /\ (~bForceDisplayLoadingScreen /\ WorldState = "NoContext")
                => LoadingScreenStateReason = ReasonNoContext
           /\ (~bForceDisplayLoadingScreen /\ WorldState = "NullWorld")
                => LoadingScreenStateReason = ReasonNullWorld
           /\ (~bForceDisplayLoadingScreen /\ WorldState = "NotBegunPlay")
                => LoadingScreenStateReason = ReasonNotBegunPlay
           /\ (/\ ~bForceDisplayLoadingScreen
               /\ WorldState = "BegunPlay"
               /\ bIsDisplayedByGameLogic)
                => LoadingScreenStateReason
                      = IF UserSpecifiedLoadingScreenReason = ""
                        THEN ReasonUnspecified
                        ELSE UserSpecifiedLoadingScreenReason
           /\ bNeedToShowLoadingScreen
                <=> \/ bForceDisplayLoadingScreen
                    \/ WorldState # "BegunPlay"
                    \/ bIsDisplayedByGameLogic
           /\ (~bNeedToShowLoadingScreen /\ ~bForcedToShowLoadingScreen)
                => LoadingScreenStateReason = ReasonNone

\* Forced in the settings, no world context and a game-logic request at
\* once: the settings' reason is the one reported.
C16_Witness ==
    /\ Evaluated
    /\ bForceDisplayLoadingScreen
    /\ WorldState = "NoContext"
    /\ bIsDisplayedByGameLogic
    /\ UserSpecifiedLoadingScreenReason = "cutscene"
    /\ LoadingScreenStateReason = ReasonForced
    /\ bNeedToShowLoadingScreen

(***************************************************************************)
(* C17.  An evaluation that finds a reason to display while the screen is  *)
(* displayed and the timestamp unset has nothing to do after               *)
(* CheckForDisplayReason (the timestamp is reset to the value it has, and  *)
(* ShowLoadingScreen returns at once), so what it changes is what          *)
(* CheckForDisplayReason changes.                                          *)
(*                                                                         *)
(* As stated: such an evaluation leaves every field unchanged,             *)
(* LoadingScreenStateReason included, and broadcasts nothing.              *)
(***************************************************************************)
CheckOnlyEvaluation ==
    /\ call' = "UpdateLoadingScreen"
    /\ bNeedToShowLoadingScreen'
    /\ bIsDisplayingLoadingScreen
    /\ LoadingScreenLastDismissedTimestamp = TimestampNone

C17_CheckChangesNothing ==
    [][CheckOnlyEvaluation
          => /\ UNCHANGED <<screenVars, logicVars>>
             /\ events' = <<>>]_vars

(***************************************************************************)
(* C17 (amended): CheckForDisplayReason writes the reason it finds to      *)
(* LoadingScreenStateReason and changes nothing else:                      *)
(* bIsDisplayingLoadingScreen, the timestamp, bIsDisplayedByGameLogic,     *)
(* UserSpecifiedLoadingScreenReason, the widget and the rendering flag are *)
(* unchanged and nothing is broadcast.                                     *)
(***************************************************************************)
C17_CheckWritesOnlyReason ==
    [][CheckOnlyEvaluation
          => /\ UNCHANGED <<bIsDisplayingLoadingScreen,
                            LoadingScreenLastDismissedTimestamp,
                            LoadingScreenWidget, bDisableWorldRendering, logicVars>>
             /\ events' = <<>>
             /\ VisibilityLog' = VisibilityLog
             /\ LoadingScreenStateReason'
                   \in {ReasonForced, ReasonNoContext, ReasonNullWorld,
                        ReasonNotBegunPlay, ReasonUnspecified,
                        UserSpecifiedLoadingScreenReason}]_vars

\* After an evaluation that found the world not begun, one that found the
\* screen forced in the settings: the reason was rewritten, nothing else.
C17_Witness ==
    /\ Evaluated
    /\ PreviousNeed = "need"
    /\ bNeedToShowLoadingScreen
    /\ bForceDisplayLoadingScreen
    /\ WorldState = "NotBegunPlay"
    /\ LoadingScreenStateReason = ReasonForced
    /\ bIsDisplayingLoadingScreen
    /\ ~TimestampSet
    /\ events = <<>>
    /\ VisibilityLog = <<TRUE>>

(***************************************************************************)
(* C18: an evaluation that hides the screen broadcasts                     *)
(* OnVisibilityChanged(false) last: the widget has been removed, the       *)
(* viewport's bDisableWorldRendering and the world's                       *)
(* bHighPriorityLoadingLocal have been set to false before it, and         *)
(* bIsDisplayingLoadingScreen, the widget and the rendering flag read      *)
(* false once it is made.                                                  *)
(***************************************************************************)
EventsBefore(e) ==
    {events[i] : i \in {j \in 1..Len(events) :
                          \E k \in (j + 1)..Len(events) : events[k] = e}}

C18_DetachedBeforeHiddenBroadcast ==
    (Evaluated /\ VisibilityEvents # <<>>
               /\ VisibilityEvents[Len(VisibilityEvents)] = FALSE)
        => /\ VisibilityEvents = <<FALSE>>
           /\ events[Len(events)] = VisibilityChanged(FALSE)
           /\ DisableWorldRendering(FALSE) \in EventsBefore(VisibilityChanged(FALSE))
           /\ HighPriorityLoadingLocal(FALSE) \in EventsBefore(VisibilityChanged(FALSE))
           /\ AddViewportWidgetContent \notin EventsBefore(VisibilityChanged(FALSE))
           /\ DisableWorldRendering(TRUE) \notin EventsBefore(VisibilityChanged(FALSE))
           /\ HighPriorityLoadingLocal(TRUE) \notin EventsBefore(VisibilityChanged(FALSE))
           /\ ~LoadingScreenWidget
           /\ ~bDisableWorldRendering
           /\ ~IsLoadingScreenDisplayed

\* The hold ran out: the widget is removed, the two settings are cleared,
\* and then the broadcast is made.
C18_Witness ==
    /\ Evaluated
    /\ PreviousNeed = "clear"
    /\ events = <<RemoveViewportWidgetContent, DisableWorldRendering(FALSE),
                  HighPriorityLoadingLocal(FALSE), VisibilityChanged(FALSE)>>
    /\ ~LoadingScreenWidget
    /\ ~bIsDisplayingLoadingScreen

(***************************************************************************)
(* C19 (as stated): an evaluation shows a hidden screen only when it finds *)
(* a reason to display; the hold alone never shows it, on the first        *)
(* evaluation and after a change of HoldLoadingScreenAdditionalSecs        *)
(* included.                                                               *)
(***************************************************************************)
C19_HoldNeverShowsHiddenScreen ==
    (Evaluated /\ VisibilityEvents = <<TRUE>>) => bNeedToShowLoadingScreen

====
